---- MODULE Spec2Model ----
(***************************************************************************)
(* Model of the knapsack library's two C entry points:                     *)
(*   solve_knapsack              (src/knapsack_solve.cpp)                  *)
(*   solve_knapsack_v2_from_json (src/knapsack_v2.cpp)                     *)
(* together with the 2-bit candidate packing and the candidate encoder     *)
(* that solve_knapsack uses.                                               *)
(***************************************************************************)
EXTENDS Integers, Sequences, FiniteSets, TLC

(***************************************************************************)
(* Bounds of the model.  The code generates 64 candidates per round and    *)
(* forms blocks of up to 15 entities; the model keeps the same loops with  *)
(* smaller limits.                                                         *)
(***************************************************************************)
\* candidates per round (num_candidates, 64 in the code)
NumCandidates == 2
\* block size limit (15 in the code)
BlockCap == 2
\* largest item count of the packing specification
MaxPackItems == 5
\* number of set_lane writes in the packing specification
MaxWrites == 3
\* largest catalog
MaxEntities == 3
\* largest item count of a structured config
MaxConfigItems == 2

\* Constants.h is not among the sources; the capacity is a positive integer.
MAX_UNITS_PER_GROUP == 2

(***************************************************************************)
(* Bitwise arithmetic on non-negative integers of w bits.                  *)
(***************************************************************************)
RECURSIVE BitAnd(_, _, _)
BitAnd(a, b, w) ==
    IF w = 0 THEN 0
    ELSE (a % 2) * (b % 2) + 2 * BitAnd(a \div 2, b \div 2, w - 1)

RECURSIVE BitOr(_, _, _)
BitOr(a, b, w) ==
    IF w = 0 THEN 0
    ELSE (IF (a % 2) + (b % 2) > 0 THEN 1 ELSE 0) + 2 * BitOr(a \div 2, b \div 2, w - 1)

RECURSIVE Pow2(_)
Pow2(k) == IF k = 0 THEN 1 ELSE 2 * Pow2(k - 1)

\* a & ~m for non-negative a and m: the bits of a that m does not hold
BitAndNot(a, m, w) == a - BitAnd(a, m, w)

\* x << k and x >> k on unsigned values
Shl(x, k) == x * Pow2(k)
Shr(x, k) == x \div Pow2(k)

\* conversion to unsigned char
ToUChar(x) == x % 256

(***************************************************************************)
(* The candidate buffer: num_candidates * bytes_per_cand bytes.            *)
(***************************************************************************)
\* bytes_per_cand = (num_items + 3) / 4
BytesPerCand(n) == (n + 3) \div 4

\* std::vector<unsigned char> cand(num_candidates * bytes_per_cand, 0)
NewCand(n) == [k \in 0..(NumCandidates * BytesPerCand(n) - 1) |-> 0]

\* a set_lane that ORs the new lane in without clearing the old one
set_lane_noclear(buf, bpc, c, item, lane) ==
    LET byteIdx == c * bpc + Shr(item, 2)
        shift == BitAnd(item, 3, 2) * 2
    IN  [buf EXCEPT ![byteIdx] =
            ToUChar(BitOr(buf[byteIdx], ToUChar(Shl(BitAnd(lane, 3, 8), shift)), 8))]

\* the set_lane lambda
set_lane(buf, bpc, c, item, lane) ==
    LET byteIdx == c * bpc + Shr(item, 2)
        shift == BitAnd(item, 3, 2) * 2
        mask == ToUChar(Shl(3, shift))
    IN  [buf EXCEPT ![byteIdx] =
            ToUChar(BitOr(BitAndNot(buf[byteIdx], mask, 8),
                          ToUChar(Shl(BitAnd(lane, 3, 8), shift)), 8))]

\* the decode expression of the best candidate
get_lane(buf, bpc, c, item) ==
    LET byteIdx == c * bpc + Shr(item, 2)
        shift == BitAnd(item, 3, 2) * 2
    IN  BitAnd(Shr(buf[byteIdx], shift), 3, 8)

(***************************************************************************)
(* The pseudo-random source of solve_knapsack: std::mt19937 rng(12345)     *)
(* read through uniform_int_distribution<int>(0, 1).  The generator state  *)
(* is modelled by the number of draws made since seeding; MT_BITS is the   *)
(* top bit of each of the first 64 outputs of mt19937 seeded with 12345,   *)
(* which is the value the distribution returns for it.                     *)
(***************************************************************************)
MT_BITS ==
    << 1, 1, 0, 0, 0, 0, 0, 1, 1, 1, 1, 1, 1, 0, 1, 1,
       1, 0, 1, 0, 1, 1, 1, 0, 0, 0, 0, 0, 0, 1, 1, 1,
       1, 1, 1, 1, 1, 1, 1, 0, 1, 1, 1, 1, 0, 0, 0, 1,
       0, 0, 1, 1, 1, 0, 1, 1, 1, 1, 0, 0, 0, 1, 1, 1 >>

\* std::mt19937 rng(12345): the state right after seeding
RngSeeded == 0

\* bit(rng): the value drawn, and the state after the draw
RngBit(state) == MT_BITS[state + 1]
RngAdvance(state) == state + 1

Max(a, b) == IF a > b THEN a ELSE b

(***************************************************************************)
(* The candidate encoder (one item step, one candidate, one batch).        *)
(***************************************************************************)
\* an encoder without the overfill check
BiasLane_nocheck(lane, crewSoFar, w) == lane

\* if (lane == 1u && approxCrew + (int)weights[i] > MAX_UNITS_PER_GROUP) lane = 0u
BiasLane(lane, crewSoFar, w) ==
    IF lane = 1 /\ crewSoFar + w > MAX_UNITS_PER_GROUP THEN 0 ELSE lane

\* if (lane == 1u) approxCrew += (int)weights[i]
AddCrew(lane, crewSoFar, w) == IF lane = 1 THEN crewSoFar + w ELSE crewSoFar

\* items i..n-1 of candidate c; st = [buf, rng, crew]
RECURSIVE GenItems(_, _, _, _)
GenItems(st, c, i, w) ==
    IF i >= Len(w) THEN st
    ELSE LET lane == BiasLane(RngBit(st.rng), st.crew, w[i + 1])
         IN  GenItems([buf  |-> set_lane(st.buf, BytesPerCand(Len(w)), c, i, lane),
                       rng  |-> RngAdvance(st.rng),
                       crew |-> AddCrew(lane, st.crew, w[i + 1])],
                      c, i + 1, w)

\* candidates c..num_candidates-1; st = [buf, rng]
RECURSIVE GenCands(_, _, _)
GenCands(st, c, w) ==
    IF c >= NumCandidates THEN st
    ELSE LET one == GenItems([buf |-> st.buf, rng |-> st.rng, crew |-> 0], c, 0, w)
         IN  GenCands([buf |-> one.buf, rng |-> one.rng], c + 1, w)

(***************************************************************************)
(* Block formation, evaluation and trip selection of solve_knapsack.       *)
(***************************************************************************)
\* a block formation that does not look at picked[]
RECURSIVE FormBlock_nopicked(_, _, _, _)
FormBlock_nopicked(ents, pk, i, blk) ==
    IF i >= Len(ents) \/ Len(blk) >= BlockCap THEN blk
    ELSE FormBlock_nopicked(ents, pk, i + 1,
                   IF ents[i + 1].resourceUnits > 0 THEN Append(blk, i) ELSE blk)

\* for (i = cursor; i < size && blockIdx.size() < 15; ++i)
\*     if (!picked[i] && entities[i].resourceUnits > 0) blockIdx.push_back(i)
RECURSIVE FormBlock(_, _, _, _)
FormBlock(ents, pk, i, blk) ==
    IF i >= Len(ents) \/ Len(blk) >= BlockCap THEN blk
    ELSE FormBlock(ents, pk, i + 1,
                   IF pk[i] = 0 /\ ents[i + 1].resourceUnits > 0
                   THEN Append(blk, i) ELSE blk)

\* values[i] = max(1, priority), weights[i] = max(0, resourceUnits)
BlockValues(ents, blk) == [k \in 1..Len(blk) |-> Max(1, ents[blk[k] + 1].priority)]
BlockWeights(ents, blk) == [k \in 1..Len(blk) |-> Max(0, ents[blk[k] + 1].resourceUnits)]

\* the evaluator's result for candidate c: sum of the values, resp. weights,
\* of the items in lane 1
RECURSIVE LaneSum(_, _, _, _)
LaneSum(buf, c, x, i) ==
    IF i >= Len(x) THEN 0
    ELSE (IF get_lane(buf, BytesPerCand(Len(x)), c, i) = 1 THEN x[i + 1] ELSE 0)
         + LaneSum(buf, c, x, i + 1)

\* knapsack_metal_eval with one group, penalty_coeff = penalty_power = 1
MetalObjective(buf, c, vals) == LaneSum(buf, c, vals, 0)
MetalPenalty(buf, c, w) == Max(0, LaneSum(buf, c, w, 0) - MAX_UNITS_PER_GROUP)

\* best = 0; for (c = 1; ...) if (obj[c] - pen[c] > bestScore) best = c
RECURSIVE BestFrom(_, _, _, _)
BestFrom(o, p, c, best) ==
    IF c >= NumCandidates THEN best
    ELSE BestFrom(o, p, c + 1, IF o[c] - p[c] > o[best] - p[best] THEN c ELSE best)

\* decode of the best candidate: st = [trip, crew]
RECURSIVE DecodeTrip(_, _, _, _, _, _)
DecodeTrip(st, buf, best, blk, ents, i) ==
    IF i >= Len(blk) THEN st
    ELSE DecodeTrip(
            IF get_lane(buf, BytesPerCand(Len(blk)), best, i) = 1
            THEN [trip |-> Append(st.trip, blk[i + 1]),
                  crew |-> st.crew + Max(0, ents[blk[i + 1] + 1].resourceUnits)]
            ELSE st,
            buf, best, blk, ents, i + 1)

\* for (i = 0; i < num_items && crew < MAX_UNITS_PER_GROUP; ++i) { push; crew += }
RECURSIVE GreedyTrip(_, _, _, _)
GreedyTrip(st, blk, ents, i) ==
    IF i >= Len(blk) \/ st.crew >= MAX_UNITS_PER_GROUP THEN st
    ELSE GreedyTrip([trip |-> Append(st.trip, blk[i + 1]),
                     crew |-> st.crew + Max(0, ents[blk[i + 1] + 1].resourceUnits)],
                    blk, ents, i + 1)

\* while (cursor < size && picked[cursor]) cursor++
RECURSIVE AdvanceCursor(_, _, _)
AdvanceCursor(pk, cur, size) ==
    IF cur < size /\ pk[cur] = 1 THEN AdvanceCursor(pk, cur + 1, size) ELSE cur

\* for (int idx : trip) picked[idx] = 1
MarkPicked(pk, t) ==
    [i \in DOMAIN pk |-> IF \E k \in 1..Len(t) : t[k] = i THEN 1 ELSE pk[i]]

\* the units of a trip, recomputed in the conversion loop
RECURSIVE TripUnits(_, _, _)
TripUnits(t, ents, j) ==
    IF j > Len(t) THEN 0
    ELSE Max(0, ents[t[j] + 1].resourceUnits) + TripUnits(t, ents, j + 1)

RECURSIVE SumUnits(_, _)
SumUnits(ts, k) == IF k > Len(ts) THEN 0 ELSE ts[k].units + SumUnits(ts, k + 1)

\* the KnapsackSolution built from the trips (distance and cost are left out:
\* they are computed from coordinates by haversine and decide nothing here)
MakeSolution(ts, ents, target) ==
    LET out == [ti \in 1..Len(ts) |->
                   [group_id   |-> ti,
                    item_names |-> ts[ti],
                    units      |-> TripUnits(ts[ti], ents, 1)]]
        total == SumUnits(out, 1)
    IN  [kind        |-> "solution",
         num_trips   |-> Len(ts),
         trips       |-> out,
         total_units |-> total,
         shortfall   |-> Max(0, target - total)]

(***************************************************************************)
(* State.                                                                  *)
(***************************************************************************)
VARIABLES
    \* the candidate buffer and its users
    num_items,        \* item count of the current block
    cand,             \* the packed candidate buffer
    weights,          \* weights[] of the current block
    written,          \* packing specification: lane last written to each slot
    writes,           \* packing specification: number of set_lane calls so far
    \* the encoder loop, step by step
    enc_c,            \* candidate index c
    enc_i,            \* item index i
    approxCrew,       \* running load of candidate c
    drawn,            \* the bits drawn so far, per candidate
    \* solve_knapsack
    build,            \* "cpu", "apple_x86" or "apple_arm64": what the #if's select
    metal_ready,      \* whether Metal has been initialised in this process
    csv_path,         \* "null" or "path"
    catalog,          \* the entities the file at csv_path holds
    target_team_size,
    pc,               \* position in solve_knapsack
    entities,
    remaining,
    picked,
    trips,
    cursor,
    rng,
    blockIdx,
    values,
    obj,
    pen,
    used_metal,
    trip,
    crew,
    result,           \* NoResult (no return yet), NullResult, or the solution
    threw,            \* "no", or the stage in which a failure was raised
    escaped,          \* whether a failure left solve_knapsack
    iters,            \* loop iterations that went on past the empty-trip check
    batches,          \* the candidate buffers generated in this call, in order
    calls,            \* calls completed before the current one
    prev,             \* what the previous call generated and returned
    \* solve_knapsack_v2_from_json
    v2pc,             \* position in solve_knapsack_v2_from_json
    out_ptr,          \* the out_solution argument: "null" or "valid"
    out_solution,     \* *out_solution
    json_config,      \* the config text, or NullText
    options_json,     \* the options text, or NullText
    cfg,
    soa,
    opt,
    r,                \* the solver's BeamResult
    sol,              \* the KnapsackSolutionV2 under construction
    rc,               \* the code returned
    solver_ran,       \* whether SolveBeamSelect was called
    solver_failed,    \* whether it reported failure
    alloc_failed,     \* "no", "record" (malloc) or "select" (calloc)
    null_write        \* whether a write went through a null select array

packvars == <<written, writes>>
encvars == <<enc_c, enc_i, approxCrew, drawn>>
envvars == <<build, csv_path, catalog, target_team_size>>
loopvars == <<entities, remaining, picked, trips, cursor, rng, blockIdx, values,
              obj, pen, used_metal, trip, crew>>
histvars == <<iters, batches, calls, prev>>
legacyvars == <<envvars, metal_ready, pc, loopvars, result, threw, escaped, histvars>>
bufvars == <<num_items, cand, weights>>

v2vars == <<v2pc, out_ptr, out_solution, json_config, options_json, cfg, soa, opt,
            r, sol, rc, solver_ran, solver_failed, alloc_failed, null_write>>

vars == <<bufvars, packvars, encvars, legacyvars, v2vars>>

\* a null char pointer; a pointer that was never set; a null solution pointer
NullText == [kind |-> "null"]
Unset == [kind |-> "unset"]
NullSolution == [kind |-> "null"]

V2Idle ==
    /\ v2pc = "off" /\ out_ptr = "null" /\ out_solution = Unset
    /\ json_config = NullText /\ options_json = NullText
    /\ cfg = Unset /\ soa = Unset /\ opt = Unset /\ r = Unset /\ sol = Unset
    /\ rc = 0 /\ solver_ran = FALSE /\ solver_failed = FALSE
    /\ alloc_failed = "no" /\ null_write = FALSE

\* what solve_knapsack has returned: nothing yet, or nullptr
NoResult == [kind |-> "none"]
NullResult == [kind |-> "null"]
NoPrev == [result |-> NoResult, batches |-> <<>>, threw |-> "no"]

PackIdle == written = <<>> /\ writes = 0
EncIdle == enc_c = 0 /\ enc_i = 0 /\ approxCrew = 0 /\ drawn = <<>>
BufIdle == num_items = 0 /\ cand = <<>> /\ weights = <<>>

\* the locals of solve_knapsack outside a call
LoopIdle ==
    /\ entities = <<>> /\ remaining = 0 /\ picked = <<>> /\ trips = <<>>
    /\ cursor = 0 /\ rng = 0 /\ blockIdx = <<>> /\ values = <<>>
    /\ obj = <<>> /\ pen = <<>> /\ used_metal = FALSE /\ trip = <<>> /\ crew = 0

LegacyIdle ==
    /\ build = "cpu" /\ metal_ready = FALSE /\ csv_path = "null"
    /\ catalog = <<>> /\ target_team_size = 0 /\ pc = "off"
    /\ LoopIdle
    /\ result = NoResult /\ threw = "no" /\ escaped = FALSE
    /\ iters = 0 /\ batches = <<>> /\ calls = 0 /\ prev = NoPrev

(***************************************************************************)
(* Packing specification: arbitrary set_lane writes into a fresh buffer,    *)
(* to the first and the last candidate; the candidates between them are    *)
(* there to show that a write leaves them alone.                           *)
(***************************************************************************)
PackInit ==
    /\ num_items \in 1..MaxPackItems
    /\ cand = NewCand(num_items)
    /\ weights = <<>>
    /\ written = [c \in 0..(NumCandidates - 1) |->
                    [s \in 0..(4 * BytesPerCand(num_items) - 1) |-> 0]]
    /\ writes = 0
    /\ EncIdle
    /\ LegacyIdle
    /\ V2Idle

PackSetLane ==
    /\ writes < MaxWrites
    /\ \E c \in {0, NumCandidates - 1}, item \in 0..(num_items - 1), lane \in 0..3 :
          /\ cand' = set_lane(cand, BytesPerCand(num_items), c, item, lane)
          /\ written' = [written EXCEPT ![c][item] = lane]
    /\ writes' = writes + 1
    /\ UNCHANGED <<num_items, weights, encvars, legacyvars, v2vars>>

PackNext == PackSetLane

SpecPack == PackInit /\ [][PackNext]_vars

\* C6: every slot of every candidate decodes to the lane last written to it
\* (0 if never written), and the buffer holds ceil(n/4) bytes per candidate.
C6_RoundTrip ==
    /\ DOMAIN cand = 0..(NumCandidates * BytesPerCand(num_items) - 1)
    /\ 4 * BytesPerCand(num_items) >= num_items
    /\ 4 * (BytesPerCand(num_items) - 1) < num_items
    /\ \A c \in 0..(NumCandidates - 1) :
         \A s \in 0..(4 * BytesPerCand(num_items) - 1) :
            get_lane(cand, BytesPerCand(num_items), c, s) = written[c][s]

C6_Witness ==
    /\ writes >= 3
    /\ num_items = 5
    /\ written[NumCandidates - 1][4] = 3
    /\ written[NumCandidates - 1][3] = 2
    /\ written[0][4] = 1
    /\ get_lane(cand, BytesPerCand(num_items), NumCandidates - 1, 4) = 3

(***************************************************************************)
(* Encoder specification: the candidate generation loop of one round, one  *)
(* item step at a time, for any block of eligible entities and any bits    *)
(* the generator may deliver.                                              *)
(***************************************************************************)
\* the weights a block can have: its entities have resourceUnits > 0
BlockWeightSeqs ==
    UNION {[1..n -> 1..(MAX_UNITS_PER_GROUP + 1)] : n \in 1..BlockCap}

EncInit ==
    /\ weights \in BlockWeightSeqs
    /\ num_items = Len(weights)
    /\ cand = NewCand(num_items)
    /\ enc_c = 0 /\ enc_i = 0 /\ approxCrew = 0
    /\ drawn = [c \in 0..(NumCandidates - 1) |-> <<>>]
    /\ PackIdle
    /\ LegacyIdle
    /\ V2Idle

\* one pass of the inner loop body
EncItem ==
    /\ enc_c < NumCandidates
    /\ enc_i < num_items
    /\ \E b \in {0, 1} :
          LET lane == BiasLane(b, approxCrew, weights[enc_i + 1])
          IN  /\ cand' = set_lane(cand, BytesPerCand(num_items), enc_c, enc_i, lane)
              /\ approxCrew' = AddCrew(lane, approxCrew, weights[enc_i + 1])
              /\ drawn' = [drawn EXCEPT ![enc_c] = Append(@, b)]
    /\ enc_i' = enc_i + 1
    /\ UNCHANGED <<num_items, weights, enc_c, packvars, legacyvars, v2vars>>

\* the outer loop moves on to the next candidate, whose load starts at 0
EncNextCandidate ==
    /\ enc_c < NumCandidates
    /\ enc_i = num_items
    /\ enc_c' = enc_c + 1
    /\ enc_i' = 0
    /\ approxCrew' = 0
    /\ UNCHANGED <<bufvars, drawn, packvars, legacyvars, v2vars>>

EncNext == EncItem \/ EncNextCandidate

SpecEnc == EncInit /\ [][EncNext]_vars

\* the load of the first k items of candidate c, read back from the buffer
RECURSIVE PrefixLoad(_, _)
PrefixLoad(c, k) ==
    IF k = 0 THEN 0
    ELSE PrefixLoad(c, k - 1)
         + (IF get_lane(cand, BytesPerCand(num_items), c, k - 1) = 1
            THEN weights[k] ELSE 0)

\* C5: a lane is 1 exactly when a 1 was drawn and the running load plus the
\* item's weight stays within MAX_UNITS_PER_GROUP, and is 0 otherwise; so the
\* running load of every candidate is at most MAX_UNITS_PER_GROUP after every step.
C5_NoOverfillStep ==
    /\ approxCrew <= MAX_UNITS_PER_GROUP
    /\ enc_c < NumCandidates => approxCrew = PrefixLoad(enc_c, enc_i)
    /\ \A c \in 0..(NumCandidates - 1) :
         /\ PrefixLoad(c, num_items) <= MAX_UNITS_PER_GROUP
         /\ \A k \in 1..Len(drawn[c]) :
              /\ PrefixLoad(c, k) <= MAX_UNITS_PER_GROUP
              /\ get_lane(cand, BytesPerCand(num_items), c, k - 1) =
                    (IF drawn[c][k] = 1
                        /\ PrefixLoad(c, k - 1) + weights[k] <= MAX_UNITS_PER_GROUP
                     THEN 1 ELSE 0)

\* a candidate in which a drawn 1 was kept for one item and forced to 0 for a later one
C5_Witness ==
    \E c \in 0..(NumCandidates - 1) :
        /\ Len(drawn[c]) >= 2
        /\ drawn[c][1] = 1 /\ drawn[c][2] = 1
        /\ get_lane(cand, BytesPerCand(num_items), c, 0) = 1
        /\ get_lane(cand, BytesPerCand(num_items), c, 1) = 0
        /\ PrefixLoad(c, 1) + weights[2] > MAX_UNITS_PER_GROUP

(***************************************************************************)
(* solve_knapsack.                                                         *)
(***************************************************************************)
\* resourceUnits: not eligible (0), within the capacity, above the capacity
EntityKinds ==
    {[resourceUnits |-> u, priority |-> 0] : u \in 0..(MAX_UNITS_PER_GROUP + 1)}
    \cup {[resourceUnits |-> 1, priority |-> 2]}

Catalogs == UNION {[1..n -> EntityKinds] : n \in 0..MaxEntities}

Targets == {-1, 2, 3 * MAX_UNITS_PER_GROUP + 1}

Builds == {"cpu", "apple_x86", "apple_arm64"}

\* the positions inside the try block, by the stage a failure there belongs to
StageOf(p) ==
    CASE p = "load" -> "load"
      [] p \in {"loop", "gen", "eval", "select", "commit"} -> "trips"
      [] p = "build" -> "result"
      [] OTHER -> "no"

LegacyInit ==
    /\ build \in Builds
    /\ metal_ready \in (IF build = "cpu" THEN {FALSE} ELSE BOOLEAN)
    /\ csv_path \in {"null", "path"}
    /\ catalog \in (IF csv_path = "null" THEN {<<>>} ELSE Catalogs)
    /\ target_team_size \in Targets
    /\ pc = "idle"
    /\ LoopIdle
    /\ result = NoResult /\ threw = "no" /\ escaped = FALSE
    /\ iters = 0 /\ batches = <<>> /\ calls = 0 /\ prev = NoPrev
    /\ BufIdle /\ PackIdle /\ EncIdle /\ V2Idle

LoopReset ==
    /\ entities' = <<>> /\ remaining' = 0 /\ picked' = <<>> /\ trips' = <<>>
    /\ cursor' = 0 /\ rng' = 0 /\ blockIdx' = <<>> /\ values' = <<>>
    /\ obj' = <<>> /\ pen' = <<>> /\ used_metal' = FALSE /\ trip' = <<>> /\ crew' = 0
    /\ num_items' = 0 /\ cand' = <<>> /\ weights' = <<>>

\* return from solve_knapsack: the locals go out of scope
Return(value) ==
    /\ result' = value
    /\ pc' = "done"
    /\ LoopReset

\* if (!csv_path) return nullptr
Enter ==
    /\ pc = "idle"
    /\ IF csv_path = "null"
       THEN Return(NullResult)
       ELSE /\ pc' = "load"
            /\ UNCHANGED <<loopvars, bufvars, result>>
    /\ UNCHANGED <<envvars, metal_ready, threw, escaped, histvars, packvars, encvars, v2vars>>

\* load_entities_from_csv; if (entities.empty()) return nullptr; the loop's
\* initial state, with the generator seeded
Load ==
    /\ pc = "load"
    /\ IF catalog = <<>>
       THEN Return(NullResult)
       ELSE /\ entities' = catalog
            /\ remaining' = Max(0, target_team_size)
            /\ picked' = [i \in 0..(Len(catalog) - 1) |-> 0]
            /\ trips' = <<>>
            /\ cursor' = 0
            /\ rng' = RngSeeded
            /\ pc' = "loop"
            /\ UNCHANGED <<blockIdx, values, obj, pen, used_metal, trip, crew,
                           bufvars, result>>
    /\ UNCHANGED <<envvars, metal_ready, threw, escaped, histvars, packvars, encvars, v2vars>>

\* while (remaining > 0 && cursor < size) { form the block; if (empty) break
LoopHead ==
    /\ pc = "loop"
    /\ IF remaining > 0 /\ cursor < Len(entities)
       THEN LET blk == FormBlock(entities, picked, cursor, <<>>)
            IN  /\ blockIdx' = blk
                /\ pc' = IF blk = <<>> THEN "post" ELSE "gen"
       ELSE /\ pc' = "post"
            /\ UNCHANGED blockIdx
    /\ UNCHANGED <<envvars, metal_ready, entities, remaining, picked, trips, cursor,
                   rng, values, obj, pen, used_metal, trip, crew, bufvars, result,
                   threw, escaped, histvars, packvars, encvars, v2vars>>

\* the evaluator inputs and the random candidate batch
Generate ==
    /\ pc = "gen"
    /\ LET w == BlockWeights(entities, blockIdx)
           g == GenCands([buf |-> NewCand(Len(blockIdx)), rng |-> rng], 0, w)
       IN  /\ num_items' = Len(blockIdx)
           /\ values' = BlockValues(entities, blockIdx)
           /\ weights' = w
           /\ cand' = g.buf
           /\ rng' = g.rng
           /\ batches' = Append(batches, g.buf)
    /\ pc' = "eval"
    /\ UNCHANGED <<envvars, metal_ready, entities, remaining, picked, trips, cursor,
                   blockIdx, obj, pen, used_metal, trip, crew, result, threw, escaped,
                   iters, calls, prev, packvars, encvars, v2vars>>

\* knapsack_metal_eval, compiled in on Apple builds; it succeeds once Metal is
\* initialised and leaves obj and pen at 0 otherwise
Evaluate ==
    /\ pc = "eval"
    /\ IF build # "cpu" /\ metal_ready
       THEN /\ used_metal' = TRUE
            /\ obj' = [c \in 0..(NumCandidates - 1) |-> MetalObjective(cand, c, values)]
            /\ pen' = [c \in 0..(NumCandidates - 1) |-> MetalPenalty(cand, c, weights)]
       ELSE /\ used_metal' = FALSE
            /\ obj' = [c \in 0..(NumCandidates - 1) |-> 0]
            /\ pen' = [c \in 0..(NumCandidates - 1) |-> 0]
    /\ pc' = "select"
    /\ UNCHANGED <<envvars, metal_ready, entities, remaining, picked, trips, cursor,
                   rng, blockIdx, values, trip, crew, bufvars, result, threw, escaped,
                   histvars, packvars, encvars, v2vars>>

\* the trip: the best candidate decoded, or the greedy prefix of the block
SelectTrip ==
    /\ pc = "select"
    /\ LET t == IF used_metal
                THEN DecodeTrip([trip |-> <<>>, crew |-> 0], cand,
                                BestFrom(obj, pen, 1, 0), blockIdx, entities, 0)
                ELSE GreedyTrip([trip |-> <<>>, crew |-> 0], blockIdx, entities, 0)
       IN  /\ trip' = t.trip
           /\ crew' = t.crew
    /\ pc' = "commit"
    /\ UNCHANGED <<envvars, metal_ready, entities, remaining, picked, trips, cursor,
                   rng, blockIdx, values, obj, pen, used_metal, bufvars, result,
                   threw, escaped, histvars, packvars, encvars, v2vars>>

\* the loop goes on after an empty trip instead of leaving
EmptyTripBreaks_never(t) == FALSE

\* if (trip.empty()) break
EmptyTripBreaks(t) == t = <<>>

\* the tail of the loop body
Commit ==
    /\ pc = "commit"
    /\ IF EmptyTripBreaks(trip)
       THEN /\ pc' = "post"
            /\ UNCHANGED <<picked, trips, remaining, cursor, iters>>
       ELSE /\ picked' = MarkPicked(picked, trip)
            /\ trips' = Append(trips, trip)
            /\ remaining' = remaining - crew
            /\ cursor' = AdvanceCursor(picked', cursor, Len(entities))
            /\ iters' = iters + 1
            /\ pc' = "loop"
    /\ UNCHANGED <<envvars, metal_ready, entities, rng, blockIdx, values, obj, pen,
                   used_metal, trip, crew, bufvars, result, threw, escaped,
                   batches, calls, prev, packvars, encvars, v2vars>>

\* knapsack_metal_init_default(), called on Apple Silicon builds only; it may
\* or may not bring Metal up
MetalInit ==
    /\ pc = "post"
    /\ IF build = "apple_arm64"
       THEN metal_ready' \in {metal_ready, TRUE}
       ELSE UNCHANGED metal_ready
    /\ pc' = "build"
    /\ UNCHANGED <<envvars, loopvars, bufvars, result, threw, escaped, histvars,
                   packvars, encvars, v2vars>>

\* the conversion to the C struct, and return solution
BuildSolution ==
    /\ pc = "build"
    /\ Return(MakeSolution(trips, entities, target_team_size))
    /\ UNCHANGED <<envvars, metal_ready, threw, escaped, histvars, packvars, encvars, v2vars>>

\* a failure raised inside the try block (the loader's, or an allocation's):
\* control goes to the handler and the locals are destroyed
Throw ==
    /\ StageOf(pc) # "no"
    /\ threw' = StageOf(pc)
    /\ pc' = "catch"
    /\ LoopReset
    /\ UNCHANGED <<envvars, metal_ready, result, escaped, histvars, packvars, encvars, v2vars>>

\* a handler that lets the failure go on to the caller
CatchAll_rethrow == [value |-> NoResult, escapes |-> TRUE]

\* catch (...) { return nullptr; }
CatchAll == [value |-> NullResult, escapes |-> FALSE]

Catch ==
    /\ pc = "catch"
    /\ result' = CatchAll.value
    /\ escaped' = CatchAll.escapes
    /\ pc' = "done"
    /\ UNCHANGED <<envvars, metal_ready, loopvars, bufvars, threw, histvars,
                   packvars, encvars, v2vars>>

LegacyNext ==
    \/ Enter \/ Load \/ LoopHead \/ Generate \/ Evaluate \/ SelectTrip \/ Commit
    \/ MetalInit \/ BuildSolution \/ Throw \/ Catch

SpecLegacy == LegacyInit /\ [][LegacyNext]_vars

\* the host calls solve_knapsack a second time with the same arguments
CallAgain ==
    /\ pc = "done"
    /\ calls = 0
    /\ prev' = [result |-> result, batches |-> batches, threw |-> threw]
    /\ calls' = 1
    /\ pc' = "idle"
    /\ result' = NoResult /\ threw' = "no" /\ escaped' = FALSE
    /\ iters' = 0 /\ batches' = <<>>
    /\ UNCHANGED <<envvars, metal_ready, loopvars, bufvars, packvars, encvars, v2vars>>

RepeatNext == LegacyNext \/ CallAgain

SpecRepeat == LegacyInit /\ [][RepeatNext]_vars

(***************************************************************************)
(* Properties of solve_knapsack.                                           *)
(***************************************************************************)
InLoop == pc \in {"loop", "gen", "eval", "select", "commit", "post", "build"}

Returned == pc = "done" /\ result.kind = "solution"

\* the entity indices of a sequence of trips, in order
RECURSIVE Flatten(_, _)
Flatten(ts, k) == IF k > Len(ts) THEN <<>> ELSE ts[k] \o Flatten(ts, k + 1)

NoRepeats(q) == \A a, b \in 1..Len(q) : a # b => q[a] # q[b]

PickedCount == Cardinality({i \in DOMAIN picked : picked[i] = 1})

\* C2: a null path, an empty catalog and a failure raised while loading,
\* building trips or building the result each end in a null result, and no
\* failure leaves the call.
C2_NullOnFailure ==
    /\ escaped = FALSE
    /\ pc = "done" =>
         /\ csv_path = "null" => result = NullResult
         /\ catalog = <<>> => result = NullResult
         /\ threw # "no" => result = NullResult

C2_Witness ==
    /\ pc = "done"
    /\ threw = "result"
    /\ iters >= 1
    /\ result = NullResult
    /\ ~escaped

\* C9: the trips are non-empty and pairwise disjoint, hold only entities with
\* resourceUnits > 0, and picked[i] = 1 exactly for the entities in a trip;
\* the same holds of the trips of a returned solution.
C9_TripsDisjoint ==
    /\ InLoop =>
         LET all == Flatten(trips, 1)
         IN  /\ \A k \in 1..Len(trips) : trips[k] # <<>>
             /\ NoRepeats(all)
             /\ \A a \in 1..Len(all) : entities[all[a] + 1].resourceUnits > 0
             /\ \A i \in DOMAIN picked :
                   picked[i] = 1 <=> \E a \in 1..Len(all) : all[a] = i
    /\ Returned =>
         LET all == Flatten([k \in 1..result.num_trips |-> result.trips[k].item_names], 1)
         IN  /\ \A k \in 1..result.num_trips : result.trips[k].item_names # <<>>
             /\ NoRepeats(all)
             /\ \A a \in 1..Len(all) : catalog[all[a] + 1].resourceUnits > 0

C9_Witness ==
    /\ InLoop
    /\ Len(trips) >= 2
    /\ \E k \in 1..Len(trips) : Len(trips[k]) >= 2
    /\ PickedCount >= 3

\* C10: every iteration that does not leave the loop picks at least one entity
\* that was not picked before, so there are at most |entities| of them.
C10_BoundedIterations ==
    /\ iters <= Len(catalog)
    /\ InLoop =>
         /\ iters = Len(trips)
         /\ iters <= PickedCount
         /\ PickedCount <= Len(entities)

C10_Witness ==
    /\ pc = "commit"
    /\ used_metal
    /\ iters >= 2
    /\ trip = <<>>

\* C8: a returned solution with shortfall > 0 has every entity with
\* resourceUnits > 0 in one of its trips.
C8_NoEarlyStop ==
    (Returned /\ result.shortfall > 0) =>
        \A i \in 1..Len(catalog) :
            catalog[i].resourceUnits > 0 =>
                \E k \in 1..result.num_trips :
                    \E j \in 1..Len(result.trips[k].item_names) :
                        result.trips[k].item_names[j] = i - 1

\* the same on the software path alone (no round of the call used Metal)
SoftwarePath_NoEarlyStop == (build = "cpu") => C8_NoEarlyStop

\* C7: a second call with the same catalog and target generates the same
\* candidate batches and returns the same solution as the first (calls in
\* which a failure was raised are left aside).
C7_Deterministic ==
    (pc = "done" /\ calls = 1 /\ threw = "no" /\ prev.threw = "no") =>
        /\ batches = prev.batches
        /\ result = prev.result

\* the same where Metal is compiled out
CpuOnly_Deterministic == (build = "cpu") => C7_Deterministic

(***************************************************************************)
(* solve_knapsack_v2_from_json.                                            *)
(*                                                                         *)
(* A config text is described by what the v2 loader makes of it: whether   *)
(* it parses and validates, whether its catalog can be built, its mode and *)
(* its item count.  An options text is described by the token that follows *)
(* each key (and its colon) in it.                                         *)
(***************************************************************************)
Modes == {"select", "assign"}

ConfigTexts ==
    {[kind |-> "text", parses |-> p, builds |-> b, mode |-> m, count |-> n] :
        p \in BOOLEAN, b \in BOOLEAN, m \in Modes, n \in 0..MaxConfigItems}

Absent == [t |-> "absent"]
Num(v) == [t |-> "num", v |-> v]
Bool(v) == [t |-> "bool", v |-> v]
Junk == [t |-> "junk"]

NoKeys ==
    [beam_width |-> Absent, iters |-> Absent, seed |-> Absent, debug |-> Absent,
     dom_enable |-> Absent, dom_eps |-> Absent, dom_surrogate |-> Absent]

OptionTexts ==
    { [kind |-> "text", empty |-> TRUE, keys |-> NoKeys],
      [kind |-> "text", empty |-> FALSE, keys |-> NoKeys],
      [kind |-> "text", empty |-> FALSE,
       keys |-> [NoKeys EXCEPT !.beam_width = Num(4), !.seed = Num(7),
                               !.debug = Bool(TRUE), !.dom_eps = Junk]],
      [kind |-> "text", empty |-> FALSE,
       keys |-> [NoKeys EXCEPT !.iters = Num(2), !.dom_enable = Bool(FALSE),
                               !.dom_surrogate = Junk, !.debug = Num(1)]] }

\* v2::SolverOptions opt; // defaults
DefaultOptions ==
    [beam_width |-> [t |-> "default"], iters |-> [t |-> "default"],
     seed |-> [t |-> "default"], debug |-> [t |-> "default"],
     enable_dominance_filter |-> [t |-> "default"], dom_eps |-> [t |-> "default"],
     dom_use_surrogate |-> [t |-> "default"]]

\* parse_number_after: true, with the number, when a number follows the key
parse_number_after(text, key) == text.keys[key].t = "num"

\* parse_bool_after: true, with the value, when true or false follows the key
parse_bool_after(text, key) == text.keys[key].t = "bool"

\* if (parse_..._after(s, key, &v)) opt.field = v
SetIf(found, text, key, old) == IF found THEN text.keys[key] ELSE old

\* the options block
ParseOptions(text) ==
    IF text.kind = "null" \/ text.empty
    THEN DefaultOptions
    ELSE [beam_width |-> SetIf(parse_number_after(text, "beam_width"), text,
                               "beam_width", DefaultOptions.beam_width),
          iters |-> SetIf(parse_number_after(text, "iters"), text,
                          "iters", DefaultOptions.iters),
          seed |-> SetIf(parse_number_after(text, "seed"), text,
                         "seed", DefaultOptions.seed),
          debug |-> SetIf(parse_bool_after(text, "debug"), text,
                          "debug", DefaultOptions.debug),
          enable_dominance_filter |->
              SetIf(parse_bool_after(text, "dom_enable"), text,
                    "dom_enable", DefaultOptions.enable_dominance_filter),
          dom_eps |-> SetIf(parse_number_after(text, "dom_eps"), text,
                            "dom_eps", DefaultOptions.dom_eps),
          dom_use_surrogate |->
              SetIf(parse_bool_after(text, "dom_surrogate"), text,
                    "dom_surrogate", DefaultOptions.dom_use_surrogate)]

\* v2::LoadConfigFromJsonString, v2::BuildHostSoA: success, and what they yield
LoadConfigFromJsonString(text) == text.parses
LoadedConfig(text) == [kind |-> "cfg", mode |-> text.mode, builds |-> text.builds,
                       count |-> text.count]
BuildHostSoA(c) == c.builds
BuiltSoA(c) == [kind |-> "soa", count |-> c.count]

\* the results v2::SolveBeamSelect can report for n items
BeamResults(n) ==
    {[kind |-> "result", best_select |-> b, objective |-> o, penalty |-> q,
      total |-> o - q] :
        b \in [0..(n - 1) -> BOOLEAN], o \in {0, 3}, q \in {0, 1, 5}}

\* if (cfg.mode != std::string("select")) return -5
ModeUnsupported(c) == c.mode # "select"

\* a copy that recomputes the total from the objective alone
CopyTotals_drop(s, res) ==
    [s EXCEPT !.objective = res.objective, !.penalty = res.penalty,
              !.total = res.objective]

\* sol->objective = r.objective; sol->penalty = r.penalty; sol->total = r.total
CopyTotals(s, res) ==
    [s EXCEPT !.objective = res.objective, !.penalty = res.penalty,
              !.total = res.total]

\* alloc_solution_v2(n): null when malloc fails; otherwise the record, whose
\* select array is null when calloc fails
alloc_solution_v2(n, malloc_ok, calloc_ok) ==
    IF ~malloc_ok THEN NullSolution
    ELSE [kind |-> "solution", num_items |-> n,
          select |-> IF calloc_ok
                     THEN [ptr |-> "array", at |-> [i \in 0..(n - 1) |-> 0]]
                     ELSE [ptr |-> "null"],
          objective |-> 0, penalty |-> 0, total |-> 0]

V2Init ==
    /\ v2pc = "entry"
    /\ out_ptr \in {"null", "valid"}
    /\ out_solution = Unset
    /\ json_config \in {NullText} \cup ConfigTexts
    /\ options_json \in {NullText} \cup OptionTexts
    /\ cfg = Unset /\ soa = Unset /\ opt = Unset /\ r = Unset /\ sol = Unset
    /\ rc = 0 /\ solver_ran = FALSE /\ solver_failed = FALSE
    /\ alloc_failed = "no" /\ null_write = FALSE
    /\ BufIdle /\ PackIdle /\ EncIdle /\ LegacyIdle

V2Return(code) ==
    /\ rc' = code
    /\ v2pc' = "done"

\* if (!out_solution) return -1; *out_solution = nullptr; if (!json_config) return -2
V2Enter ==
    /\ v2pc = "entry"
    /\ IF out_ptr = "null"
       THEN V2Return(-1) /\ UNCHANGED out_solution
       ELSE /\ out_solution' = NullSolution
            /\ IF json_config.kind = "null"
               THEN V2Return(-2)
               ELSE v2pc' = "load" /\ UNCHANGED rc
    /\ UNCHANGED <<out_ptr, json_config, options_json, cfg, soa, opt, r, sol,
                   solver_ran, solver_failed, alloc_failed, null_write,
                   bufvars, packvars, encvars, legacyvars>>

\* if (!v2::LoadConfigFromJsonString(...)) return -3
V2LoadConfig ==
    /\ v2pc = "load"
    /\ IF ~LoadConfigFromJsonString(json_config)
       THEN V2Return(-3) /\ UNCHANGED cfg
       ELSE /\ cfg' = LoadedConfig(json_config)
            /\ v2pc' = "soa"
            /\ UNCHANGED rc
    /\ UNCHANGED <<out_ptr, out_solution, json_config, options_json, soa, opt, r, sol,
                   solver_ran, solver_failed, alloc_failed, null_write,
                   bufvars, packvars, encvars, legacyvars>>

\* if (!v2::BuildHostSoA(cfg, &soa, &err)) return -4
V2BuildSoA ==
    /\ v2pc = "soa"
    /\ IF ~BuildHostSoA(cfg)
       THEN V2Return(-4) /\ UNCHANGED soa
       ELSE /\ soa' = BuiltSoA(cfg)
            /\ v2pc' = "mode"
            /\ UNCHANGED rc
    /\ UNCHANGED <<out_ptr, out_solution, json_config, options_json, cfg, opt, r, sol,
                   solver_ran, solver_failed, alloc_failed, null_write,
                   bufvars, packvars, encvars, legacyvars>>

V2CheckMode ==
    /\ v2pc = "mode"
    /\ IF ModeUnsupported(cfg)
       THEN V2Return(-5)
       ELSE v2pc' = "options" /\ UNCHANGED rc
    /\ UNCHANGED <<out_ptr, out_solution, json_config, options_json, cfg, soa, opt, r,
                   sol, solver_ran, solver_failed, alloc_failed, null_write,
                   bufvars, packvars, encvars, legacyvars>>

V2ParseOptions ==
    /\ v2pc = "options"
    /\ opt' = ParseOptions(options_json)
    /\ v2pc' = "solve"
    /\ UNCHANGED <<out_ptr, out_solution, json_config, options_json, cfg, soa, r, sol,
                   rc, solver_ran, solver_failed, alloc_failed, null_write,
                   bufvars, packvars, encvars, legacyvars>>

\* if (!v2::SolveBeamSelect(cfg, soa, opt, &r, &err)) return -6
V2Solve ==
    /\ v2pc = "solve"
    /\ solver_ran' = TRUE
    /\ \/ /\ solver_failed' = TRUE
          /\ V2Return(-6)
          /\ UNCHANGED r
       \/ /\ r' \in BeamResults(soa.count)
          /\ v2pc' = "alloc"
          /\ UNCHANGED <<rc, solver_failed>>
    /\ UNCHANGED <<out_ptr, out_solution, json_config, options_json, cfg, soa, opt, sol,
                   alloc_failed, null_write, bufvars, packvars, encvars, legacyvars>>

\* sol = alloc_solution_v2(soa.count); if (!sol) return -7
V2Alloc ==
    /\ v2pc = "alloc"
    /\ \E malloc_ok \in BOOLEAN, calloc_ok \in BOOLEAN :
          LET s == alloc_solution_v2(soa.count, malloc_ok, calloc_ok)
          IN  /\ alloc_failed' = IF ~malloc_ok THEN "record"
                                 ELSE IF ~calloc_ok THEN "select" ELSE "no"
              /\ IF s = NullSolution
                 THEN V2Return(-7) /\ UNCHANGED sol
                 ELSE sol' = s /\ v2pc' = "copy" /\ UNCHANGED rc
    /\ UNCHANGED <<out_ptr, out_solution, json_config, options_json, cfg, soa, opt, r,
                   solver_ran, solver_failed, null_write,
                   bufvars, packvars, encvars, legacyvars>>

\* for (i < soa.count) sol->select[i] = r.best_select[i] ? 1 : 0.  With a null
\* select array and at least one item the first write goes through a null
\* pointer: the process may die there, or go on with the array still null.
V2CopySelect ==
    /\ v2pc = "copy"
    /\ IF soa.count = 0
       THEN v2pc' = "finish" /\ UNCHANGED <<sol, null_write>>
       ELSE IF sol.select.ptr = "null"
       THEN /\ null_write' = TRUE
            /\ v2pc' \in {"crashed", "finish"}
            /\ UNCHANGED sol
       ELSE /\ sol' = [sol EXCEPT !.select.at =
                          [i \in 0..(soa.count - 1) |-> IF r.best_select[i] THEN 1 ELSE 0]]
            /\ v2pc' = "finish"
            /\ UNCHANGED null_write
    /\ UNCHANGED <<out_ptr, out_solution, json_config, options_json, cfg, soa, opt, r,
                   rc, solver_ran, solver_failed, alloc_failed,
                   bufvars, packvars, encvars, legacyvars>>

\* the totals are copied; *out_solution = sol; return 0
V2Finish ==
    /\ v2pc = "finish"
    /\ sol' = CopyTotals(sol, r)
    /\ out_solution' = sol'
    /\ V2Return(0)
    /\ UNCHANGED <<out_ptr, json_config, options_json, cfg, soa, opt, r,
                   solver_ran, solver_failed, alloc_failed, null_write,
                   bufvars, packvars, encvars, legacyvars>>

V2Next ==
    \/ V2Enter \/ V2LoadConfig \/ V2BuildSoA \/ V2CheckMode \/ V2ParseOptions
    \/ V2Solve \/ V2Alloc \/ V2CopySelect \/ V2Finish

SpecV2 == V2Init /\ [][V2Next]_vars

(***************************************************************************)
(* Properties of solve_knapsack_v2_from_json.                              *)
(***************************************************************************)
V2Ended == v2pc \in {"done", "crashed"}

\* the code of the first failing stage, in the order of the documentation
FirstFailure ==
    IF out_ptr = "null" THEN -1
    ELSE IF json_config.kind = "null" THEN -2
    ELSE IF ~json_config.parses THEN -3
    ELSE IF ~json_config.builds THEN -4
    ELSE IF json_config.mode # "select" THEN -5
    ELSE IF solver_failed THEN -6
    ELSE IF alloc_failed # "no" THEN -7
    ELSE 0

\* C1: the call returns the code of the first failing stage, 0 only if none
\* fails; a config that parses and builds with a mode other than "select"
\* yields -5 and the solver is not run for it.
C1_FirstFailingStage ==
    V2Ended =>
        /\ v2pc = "done"
        /\ rc = FirstFailure
        /\ (out_ptr = "valid" /\ json_config.kind = "text" /\ json_config.parses
            /\ json_config.builds /\ json_config.mode # "select")
              => (rc = -5 /\ ~solver_ran)

\* the same with the failure of the select array left to C3
CodesApartFromSelectArray ==
    (V2Ended /\ alloc_failed # "select") => C1_FirstFailingStage

\* C3: a failed allocation of the solution record or of its select array is
\* reported as -7 with *out_solution null, and no write goes through a null
\* select array.
C3_AllocationFailure ==
    /\ ~null_write
    /\ (V2Ended /\ alloc_failed # "no") =>
          /\ v2pc = "done"
          /\ rc = -7
          /\ out_solution = NullSolution

\* C4: a solution returned with code 0 reports the solver's objective, penalty
\* and total, and total = objective - penalty.
C4_TotalIsObjectiveMinusPenalty ==
    (v2pc = "done" /\ rc = 0) =>
        /\ out_solution.kind = "solution"
        /\ out_solution.objective = r.objective
        /\ out_solution.penalty = r.penalty
        /\ out_solution.total = r.total
        /\ out_solution.total = out_solution.objective - out_solution.penalty

C4_Witness ==
    /\ v2pc = "done"
    /\ rc = 0
    /\ out_solution.kind = "solution"
    /\ out_solution.num_items = 2
    /\ out_solution.objective = 3
    /\ out_solution.penalty = 1
    /\ out_solution.total = 2
    /\ alloc_failed = "no"

====
